---- MODULE Spec2Model ----
(***************************************************************************)
(* Lazy-caching resource hierarchy of pyorthanc: Patient -> Study ->       *)
(* Series -> Instance proxies over a remote Orthanc server.                *)
(*                                                                         *)
(* The heap is the sequence of proxy objects built so far; an object       *)
(* reference is its index.  An optional value is None (the empty sequence) *)
(* or Some(v) (a one-element sequence), so that an unset child list (None) *)
(* and an empty child list (Some(<<>>)) are different values, as `None`    *)
(* and `[]` are in the source.                                             *)
(***************************************************************************)
EXTENDS Naturals, Sequences, FiniteSets

VARIABLES
    heap,           \* Seq of proxies: [cls, id_, client, lock, information, child_resources]
    remote_labels,  \* the server: entity identifier -> set of labels
    ghost,          \* per proxy, history: [fetches, assigned]
    used,           \* history: number of events (see MaxEvents) so far
    remote_protected,  \* the server: patient identifier -> protected against recycling
    threads         \* per calling thread, its call: [pc, op, got, ret, error, sent]

vars == <<heap, remote_labels, ghost, used, remote_protected, threads>>

\* The state that the calls of a single caller on labels, metadata and
\* children leave alone.
others == <<remote_protected, threads>>

----------------------------------------------------------------------------
(* Bounds *)

\* Largest number of events in the caller's run, an event being an
\* assignment to a lock attribute, a label edit the server applies, or a
\* metadata fetch answered through a proxy whose lock flag is false.  Calls
\* on locked proxies are not counted: each locked proxy fetches and builds
\* its children at most once, so they are bounded by the server's tree.
MaxEvents == 2

----------------------------------------------------------------------------
(* Optional values *)

None == <<>>
Some(v) == <<v>>
Get(x) == x[1]

\* A null entry of a child list (Python None inside the list).
NoneRef == 0

----------------------------------------------------------------------------
(* The remote server *)

PatientIds == {"P1"}
StudyIds == {"S1", "S2"}
\* E3 is a series of a study that is not P1's.
SeriesIds == {"E1", "E2", "E3"}
InstanceIds == {"I1", "I2", "I3"}

\* The identifiers the server gives to the entities an anonymization
\* creates, and to the job of an asynchronous one.
AnonymousPatientIds == {"PX"}
AnonymousSeriesIds == {"EX"}
JobIds == {"J1"}

AllPatientIds == PatientIds \cup AnonymousPatientIds
EntityIds ==
    PatientIds \cup StudyIds \cup SeriesIds \cup InstanceIds
        \cup AnonymousPatientIds \cup AnonymousSeriesIds

\* The threads that call into the resources.
Threads == {1, 2}

LabelSet == {"a"}
Clients == {"c1", "c2"}

\* The child identifiers the server lists for an entity ('Studies', 'Series'
\* or 'Instances' of its metadata document).  S2 is a study without series.
RemoteChildren(id) ==
    CASE id = "P1" -> <<"S1", "S2">>
      [] id = "S1" -> <<"E1", "E2">>
      [] id = "S2" -> <<>>
      [] id = "E1" -> <<"I1">>
      [] id = "E2" -> <<"I2", "I3">>
      [] OTHER -> <<>>

\* The names of the main DICOM tags the server recorded for an entity.
\* Between them the entities cover, for every tag, its presence and its
\* absence, and for the series the four cases of SeriesDate and SeriesTime.
RemoteTags(id) ==
    CASE id = "P1" -> {"PatientID", "PatientName", "PatientBirthDate"}
      [] id = "PX" -> {"PatientID", "PatientSex", "OtherPatientIDs"}
      [] id = "E1" -> {"SeriesInstanceUID", "Manufacturer", "Modality",
                       "SeriesNumber", "SeriesDate", "SeriesTime"}
      [] id = "E2" -> {"SeriesInstanceUID", "StudyDescription", "SeriesDate"}
      [] id = "EX" -> {"SeriesTime"}
      [] OTHER -> {}

\* The value the server holds for a tag of an entity.
TagValue(id, tag) == <<id, tag>>

\* The metadata document of an entity as the server holds it now.
RemoteDocument(labels, id) ==
    [Children |-> RemoteChildren(id), Labels |-> labels[id],
     MainDicomTags |-> [tag \in RemoteTags(id) |-> TagValue(id, tag)]]

\* self.client.get_patients_id(id_): Some(document), or None when it raises.
get_patients_id(labels, id, ok) == IF ok THEN Some(RemoteDocument(labels, id)) ELSE None
\* self.client.get_studies_id(id_)
get_studies_id(labels, id, ok) == IF ok THEN Some(RemoteDocument(labels, id)) ELSE None
\* self.client.get_series_id(id_)
get_series_id(labels, id, ok) == IF ok THEN Some(RemoteDocument(labels, id)) ELSE None

\* The server applying PUT /{level}/{id}/labels/{label}.
put_label(labels, id, label) == [labels EXCEPT ![id] = @ \cup {label}]
\* The server applying DELETE /{level}/{id}/labels/{label}.
delete_label(labels, id, label) == [labels EXCEPT ![id] = @ \ {label}]

----------------------------------------------------------------------------
(* Resource construction *)

\* Resource.__init__(id_, client, lock): both caches start unset.
Resource(cls, id, client, lock) ==
    [cls |-> cls, id_ |-> id, client |-> client, lock |-> lock,
     information |-> None, child_resources |-> None]

\* History of a new proxy: no fetch answered through it yet, and its lock
\* attribute not assigned since construction.
NewGhost == [fetches |-> 0, assigned |-> FALSE]

\* The machine threaded through nested calls is the record
\* [heap, ghost, labels, protected]: the proxies, their history, and the
\* server's labels and protection flags.

\* One metadata fetch issued through proxy o; the history counts the
\* fetches the server answered (ok), not those that raised.
CountFetch(m, o, ok) ==
    IF ok THEN [m EXCEPT !.ghost[o].fetches = @ + 1] ELSE m


\* What a call hands back: the machine after it, the returned value (None
\* when the call raised), and how many fetches, get_main_information calls
\* and proxy constructions it made.
Outcome(m, ret, nfetch, ngmi, nnew) ==
    [m |-> m, ret |-> ret, nfetch |-> nfetch, ngmi |-> ngmi, nnew |-> nnew]

----------------------------------------------------------------------------
(* get_main_information *)

\* Faulty variant: the locked branch fetches on every call and never looks at the cache.
Patient_get_main_information_refetch(m, o, ok) ==
    LET self == m.heap[o]
        got == get_patients_id(m.labels, self.id_, ok)
    IN  IF self.lock /\ got # None
        THEN Outcome([CountFetch(m, o, ok) EXCEPT !.heap[o].information = got],
                     got, 1, 1, 0)
        ELSE Outcome(CountFetch(m, o, ok), got, 1, 1, 0)

\* Faulty variant: the cache is served whenever it is set, whatever the lock flag.
Patient_get_main_information_cache_first(m, o, ok) ==
    LET self == m.heap[o]
        got == get_patients_id(m.labels, self.id_, ok)
    IN  IF self.information # None
        THEN Outcome(m, self.information, 0, 1, 0)
        ELSE IF self.lock /\ got # None
             THEN Outcome([CountFetch(m, o, ok) EXCEPT !.heap[o].information = got],
                          got, 1, 1, 0)
             ELSE Outcome(CountFetch(m, o, ok), got, 1, 1, 0)

\* Faulty variant: the fetched document is stored whatever the lock flag.
Patient_get_main_information_store_unlocked(m, o, ok) ==
    LET self == m.heap[o]
        got == get_patients_id(m.labels, self.id_, ok)
        stored == IF got = None THEN CountFetch(m, o, ok)
                  ELSE [CountFetch(m, o, ok) EXCEPT !.heap[o].information = got]
    IN  IF self.lock
        THEN IF self.information = None
             THEN Outcome(stored, got, 1, 1, 0)
             ELSE Outcome(m, self.information, 0, 1, 0)
        ELSE Outcome(stored, got, 1, 1, 0)

\* Patient.get_main_information
Patient_get_main_information(m, o, ok) ==
    LET self == m.heap[o]
        got == get_patients_id(m.labels, self.id_, ok)
    IN  IF self.lock
        THEN IF self.information = None
             THEN IF got = None
                  THEN Outcome(CountFetch(m, o, ok), None, 1, 1, 0)
                  ELSE Outcome([CountFetch(m, o, ok) EXCEPT !.heap[o].information = got],
                               got, 1, 1, 0)
             ELSE Outcome(m, self.information, 0, 1, 0)
        ELSE Outcome(CountFetch(m, o, ok), got, 1, 1, 0)

\* Study.get_main_information
Study_get_main_information(m, o, ok) ==
    LET self == m.heap[o]
        got == get_studies_id(m.labels, self.id_, ok)
    IN  IF self.lock
        THEN IF self.information = None
             THEN IF got = None
                  THEN Outcome(CountFetch(m, o, ok), None, 1, 1, 0)
                  ELSE Outcome([CountFetch(m, o, ok) EXCEPT !.heap[o].information = got],
                               got, 1, 1, 0)
             ELSE Outcome(m, self.information, 0, 1, 0)
        ELSE Outcome(CountFetch(m, o, ok), got, 1, 1, 0)

\* Faulty variant: a fetch that raises leaves an empty document in the cache.
Series_get_main_information_partial(m, o, ok) ==
    LET self == m.heap[o]
        got == get_series_id(m.labels, self.id_, ok)
        empty == Some([Children |-> <<>>, Labels |-> {}, MainDicomTags |-> <<>>])
    IN  IF self.lock
        THEN IF self.information = None
             THEN IF got = None
                  THEN Outcome([m EXCEPT !.heap[o].information = empty],
                               None, 1, 1, 0)
                  ELSE Outcome([CountFetch(m, o, ok) EXCEPT !.heap[o].information = got],
                               got, 1, 1, 0)
             ELSE Outcome(m, self.information, 0, 1, 0)
        ELSE Outcome(CountFetch(m, o, ok), got, 1, 1, 0)

\* Series.get_main_information
Series_get_main_information(m, o, ok) ==
    LET self == m.heap[o]
        got == get_series_id(m.labels, self.id_, ok)
    IN  IF self.lock
        THEN IF self.information = None
             THEN IF got = None
                  THEN Outcome(CountFetch(m, o, ok), None, 1, 1, 0)
                  ELSE Outcome([CountFetch(m, o, ok) EXCEPT !.heap[o].information = got],
                               got, 1, 1, 0)
             ELSE Outcome(m, self.information, 0, 1, 0)
        ELSE Outcome(CountFetch(m, o, ok), got, 1, 1, 0)

----------------------------------------------------------------------------
(* Child accessors *)

\* Faulty variant: the lock flag is not handed to the children, which get the
\* constructor's default (unlocked).
RECURSIVE Construct_default_lock(_, _, _, _, _)
Construct_default_lock(m, cls, ids, client, lock) ==
    IF ids = <<>> THEN m
    ELSE Construct_default_lock(
             [m EXCEPT !.heap = Append(@, Resource(cls, Head(ids), client, FALSE)),
                       !.ghost = Append(@, NewGhost)],
             cls, Tail(ids), client, lock)

\* [Cls(i, self.client, self.lock) for i in ids]: the machine with one new
\* proxy per identifier appended, in order.
RECURSIVE Construct(_, _, _, _, _)
Construct(m, cls, ids, client, lock) ==
    IF ids = <<>> THEN m
    ELSE Construct([m EXCEPT !.heap = Append(@, Resource(cls, Head(ids), client, lock)),
                             !.ghost = Append(@, NewGhost)],
                   cls, Tail(ids), client, lock)

\* The references of the n proxies constructed after the heap had k objects.
NewRefs(k, n) == [i \in 1..n |-> k + i]

\* Faulty variant: the locked branch rebuilds the proxies on every read.
Patient_studies_rebuild(m, o, ok) ==
    LET self == m.heap[o]
        info == Patient_get_main_information(m, o, ok)
        studies_ids == Get(info.ret).Children
        n == Len(studies_ids)
        built == Construct(info.m, "Study", studies_ids, self.client, self.lock)
        refs == NewRefs(Len(m.heap), n)
    IN  IF info.ret = None
        THEN Outcome(info.m, None, info.nfetch, 1, 0)
        ELSE IF self.lock
             THEN Outcome([built EXCEPT !.heap[o].child_resources = Some(refs)],
                          Some(refs), info.nfetch, 1, n)
             ELSE Outcome(built, Some(refs), info.nfetch, 1, n)

\* Faulty variant: the locked branch tests the cached list for truth, so an
\* empty list counts as unset and is built again.
Patient_studies_refill(m, o, ok) ==
    LET self == m.heap[o]
        info == Patient_get_main_information(m, o, ok)
        studies_ids == Get(info.ret).Children
        n == Len(studies_ids)
        built == Construct(info.m, "Study", studies_ids, self.client, self.lock)
        refs == NewRefs(Len(m.heap), n)
    IN  IF self.lock
        THEN IF self.child_resources \in {None, Some(<<>>)}
             THEN IF info.ret = None
                  THEN Outcome(info.m, None, info.nfetch, 1, 0)
                  ELSE Outcome([built EXCEPT !.heap[o].child_resources = Some(refs)],
                               Some(refs), info.nfetch, 1, n)
             ELSE Outcome(m, self.child_resources, 0, 0, 0)
        ELSE IF info.ret = None
             THEN Outcome(info.m, None, info.nfetch, 1, 0)
             ELSE Outcome(built, Some(refs), info.nfetch, 1, n)

\* Patient.studies
Patient_studies(m, o, ok) ==
    LET self == m.heap[o]
        info == Patient_get_main_information(m, o, ok)
        studies_ids == Get(info.ret).Children
        n == Len(studies_ids)
        built == Construct(info.m, "Study", studies_ids, self.client, self.lock)
        refs == NewRefs(Len(m.heap), n)
    IN  IF self.lock
        THEN IF self.child_resources = None
             THEN IF info.ret = None
                  THEN Outcome(info.m, None, info.nfetch, 1, 0)
                  ELSE Outcome([built EXCEPT !.heap[o].child_resources = Some(refs)],
                               Some(refs), info.nfetch, 1, n)
             ELSE Outcome(m, self.child_resources, 0, 0, 0)
        ELSE IF info.ret = None
             THEN Outcome(info.m, None, info.nfetch, 1, 0)
             ELSE Outcome(built, Some(refs), info.nfetch, 1, n)

\* Study.series
Study_series(m, o, ok) ==
    LET self == m.heap[o]
        info == Study_get_main_information(m, o, ok)
        series_ids == Get(info.ret).Children
        n == Len(series_ids)
        built == Construct(info.m, "Series", series_ids, self.client, self.lock)
        refs == NewRefs(Len(m.heap), n)
    IN  IF self.lock
        THEN IF self.child_resources = None
             THEN IF info.ret = None
                  THEN Outcome(info.m, None, info.nfetch, 1, 0)
                  ELSE Outcome([built EXCEPT !.heap[o].child_resources = Some(refs)],
                               Some(refs), info.nfetch, 1, n)
             ELSE Outcome(m, self.child_resources, 0, 0, 0)
        ELSE IF info.ret = None
             THEN Outcome(info.m, None, info.nfetch, 1, 0)
             ELSE Outcome(built, Some(refs), info.nfetch, 1, n)

\* Series.instances
Series_instances(m, o, ok) ==
    LET self == m.heap[o]
        info == Series_get_main_information(m, o, ok)
        instances_ids == Get(info.ret).Children
        n == Len(instances_ids)
        built == Construct(info.m, "Instance", instances_ids, self.client, self.lock)
        refs == NewRefs(Len(m.heap), n)
    IN  IF self.lock
        THEN IF self.child_resources = None
             THEN IF info.ret = None
                  THEN Outcome(info.m, None, info.nfetch, 1, 0)
                  ELSE Outcome([built EXCEPT !.heap[o].child_resources = Some(refs)],
                               Some(refs), info.nfetch, 1, n)
             ELSE Outcome(m, self.child_resources, 0, 0, 0)
        ELSE IF info.ret = None
             THEN Outcome(info.m, None, info.nfetch, 1, 0)
             ELSE Outcome(built, Some(refs), info.nfetch, 1, n)

----------------------------------------------------------------------------
(* Labels *)

\* Patient.labels
Patient_labels(m, o, ok) ==
    LET info == Patient_get_main_information(m, o, ok)
    IN  IF info.ret = None
        THEN Outcome(info.m, None, info.nfetch, 1, 0)
        ELSE Outcome(info.m, Some(Get(info.ret).Labels), info.nfetch, 1, 0)

\* Series.labels
Series_labels(m, o, ok) ==
    LET info == Series_get_main_information(m, o, ok)
    IN  IF info.ret = None
        THEN Outcome(info.m, None, info.nfetch, 1, 0)
        ELSE Outcome(info.m, Some(Get(info.ret).Labels), info.nfetch, 1, 0)

\* What a label edit hands back: the machine after it (the server's labels
\* included), whether the request raised, and how many label requests and
\* how many metadata fetches were sent.
Edited(m, raised, nlabel, nfetch) ==
    [m |-> m, raised |-> raised, nlabel |-> nlabel, nfetch |-> nfetch]

\* Faulty variant: the label edit also drops the cached document.
Patient_add_label_invalidate(m, o, label, ok) ==
    IF ok THEN Edited([m EXCEPT !.labels = put_label(@, m.heap[o].id_, label),
                                !.heap[o].information = None], FALSE, 1, 0)
    ELSE Edited(m, TRUE, 1, 0)

\* Patient.add_label
Patient_add_label(m, o, label, ok) ==
    IF ok THEN Edited([m EXCEPT !.labels = put_label(@, m.heap[o].id_, label)], FALSE, 1, 0)
    ELSE Edited(m, TRUE, 1, 0)

\* Faulty variant: remove_label sends the request add_label sends.
Patient_remove_label_put(m, o, label, ok) ==
    IF ok THEN Edited([m EXCEPT !.labels = put_label(@, m.heap[o].id_, label)], FALSE, 1, 0)
    ELSE Edited(m, TRUE, 1, 0)

\* Patient.remove_label
Patient_remove_label(m, o, label, ok) ==
    IF ok THEN Edited([m EXCEPT !.labels = delete_label(@, m.heap[o].id_, label)], FALSE, 1, 0)
    ELSE Edited(m, TRUE, 1, 0)

\* Series.add_label
Series_add_label(m, o, label, ok) ==
    IF ok THEN Edited([m EXCEPT !.labels = put_label(@, m.heap[o].id_, label)], FALSE, 1, 0)
    ELSE Edited(m, TRUE, 1, 0)

\* Series.remove_label
Series_remove_label(m, o, label, ok) ==
    IF ok THEN Edited([m EXCEPT !.labels = delete_label(@, m.heap[o].id_, label)], FALSE, 1, 0)
    ELSE Edited(m, TRUE, 1, 0)

----------------------------------------------------------------------------
(* Pruning: works on the heap alone *)

\* [i for i in self._child_resources if i is not None]
NotNone(refs) == SelectSeq(refs, LAMBDA i : i # NoneRef)

\* Faulty variant: an unset list is filtered as if it were empty.
Series_remove_empty_instances_unset(h, o) ==
    [h EXCEPT ![o].child_resources =
                  Some(NotNone(IF @ = None THEN <<>> ELSE Get(@)))]

\* The entries of refs that come before its first null entry.
RECURSIVE BeforeNone(_)
BeforeNone(refs) ==
    IF refs = <<>> \/ Head(refs) = NoneRef THEN <<>>
    ELSE <<Head(refs)>> \o BeforeNone(Tail(refs))

\* Faulty variant: the list is cut at its first null entry.
Series_remove_empty_instances_truncate(h, o) ==
    IF h[o].child_resources # None
    THEN [h EXCEPT ![o].child_resources = Some(BeforeNone(Get(@)))]
    ELSE h

\* Series.remove_empty_instances
Series_remove_empty_instances(h, o) ==
    IF h[o].child_resources # None
    THEN [h EXCEPT ![o].child_resources = Some(NotNone(Get(@)))]
    ELSE h

\* for series in self._child_resources: series.remove_empty_instances()
RECURSIVE EachSeries(_, _)
EachSeries(h, refs) ==
    IF refs = <<>> THEN h
    ELSE EachSeries(Series_remove_empty_instances(h, Head(refs)), Tail(refs))

\* [r for r in refs if r._child_resources != []]: an unset child list is
\* not equal to [], so its owner is kept.
NotEmpty(h, refs) == SelectSeq(refs, LAMBDA r : h[r].child_resources # Some(<<>>))

\* Study.remove_empty_series
Study_remove_empty_series(h, o) ==
    IF h[o].child_resources = None THEN h
    ELSE LET pruned == EachSeries(h, Get(h[o].child_resources))
         IN  [pruned EXCEPT ![o].child_resources =
                                Some(NotEmpty(pruned, Get(pruned[o].child_resources)))]

\* for study in self._child_resources: study.remove_empty_series()
RECURSIVE EachStudy(_, _)
EachStudy(h, refs) ==
    IF refs = <<>> THEN h
    ELSE EachStudy(Study_remove_empty_series(h, Head(refs)), Tail(refs))

\* Faulty variant: the studies are filtered without being pruned first.
Patient_remove_empty_studies_shallow(h, o) ==
    IF h[o].child_resources = None THEN h
    ELSE [h EXCEPT ![o].child_resources = Some(NotEmpty(h, Get(@)))]

\* Faulty variant: the filter keeps the studies it should drop.
Patient_remove_empty_studies_inverted(h, o) ==
    IF h[o].child_resources = None THEN h
    ELSE LET pruned == EachStudy(h, Get(h[o].child_resources))
         IN  [pruned EXCEPT ![o].child_resources =
                 Some(SelectSeq(Get(pruned[o].child_resources),
                                LAMBDA r : pruned[r].child_resources = Some(<<>>)))]

\* Patient.remove_empty_studies
Patient_remove_empty_studies(h, o) ==
    IF h[o].child_resources = None THEN h
    ELSE LET pruned == EachStudy(h, Get(h[o].child_resources))
         IN  [pruned EXCEPT ![o].child_resources =
                                Some(NotEmpty(pruned, Get(pruned[o].child_resources)))]

----------------------------------------------------------------------------
(* The caller: one action per call *)

M == [heap |-> heap, ghost |-> ghost, labels |-> remote_labels,
      protected |-> remote_protected]

\* The events of a read accessor's outcome: one if a fetch was answered
\* through a proxy that is unlocked.
Cost(r) ==
    IF \E i \in 1..Len(heap) :
           r.m.ghost[i].fetches > ghost[i].fetches /\ ~heap[i].lock
    THEN 1 ELSE 0

\* A read accessor returned (or raised): the machine moves to its outcome.
Returns(r) ==
    /\ used + Cost(r) <= MaxEvents
    /\ used' = used + Cost(r)
    /\ heap' = r.m.heap
    /\ ghost' = r.m.ghost
    /\ remote_labels' = r.m.labels
    /\ UNCHANGED others

\* A label edit returned (or raised).
Edits(e) ==
    /\ heap' = e.m.heap
    /\ ghost' = e.m.ghost
    /\ remote_labels' = e.m.labels
    /\ IF e.raised
       THEN UNCHANGED used
       ELSE /\ used < MaxEvents
            /\ used' = used + 1
    /\ UNCHANGED others

\* A pruning method returned: it touches the heap alone.
Prunes(h) ==
    /\ heap' = h
    /\ UNCHANGED <<ghost, remote_labels, used>>
    /\ UNCHANGED others

\* The proxies of a class built so far.
Proxies(cls) == {o \in 1..Len(heap) : heap[o].cls = cls}

CallPatientGetMainInformation ==
    \E o \in Proxies("Patient"), ok \in BOOLEAN :
        Returns(Patient_get_main_information(M, o, ok))

CallStudyGetMainInformation ==
    \E o \in Proxies("Study"), ok \in BOOLEAN :
        Returns(Study_get_main_information(M, o, ok))

CallSeriesGetMainInformation ==
    \E o \in Proxies("Series"), ok \in BOOLEAN :
        Returns(Series_get_main_information(M, o, ok))

CallPatientStudies ==
    \E o \in Proxies("Patient"), ok \in BOOLEAN :
        Returns(Patient_studies(M, o, ok))

CallStudySeries ==
    \E o \in Proxies("Study"), ok \in BOOLEAN :
        Returns(Study_series(M, o, ok))

CallSeriesInstances ==
    \E o \in Proxies("Series"), ok \in BOOLEAN :
        Returns(Series_instances(M, o, ok))

CallPatientLabels ==
    \E o \in Proxies("Patient"), ok \in BOOLEAN :
        Returns(Patient_labels(M, o, ok))

CallSeriesLabels ==
    \E o \in Proxies("Series"), ok \in BOOLEAN :
        Returns(Series_labels(M, o, ok))

CallPatientAddLabel ==
    \E o \in Proxies("Patient"), label \in LabelSet, ok \in BOOLEAN :
        Edits(Patient_add_label(M, o, label, ok))

CallPatientRemoveLabel ==
    \E o \in Proxies("Patient"), label \in LabelSet, ok \in BOOLEAN :
        Edits(Patient_remove_label(M, o, label, ok))

CallSeriesAddLabel ==
    \E o \in Proxies("Series"), label \in LabelSet, ok \in BOOLEAN :
        Edits(Series_add_label(M, o, label, ok))

CallSeriesRemoveLabel ==
    \E o \in Proxies("Series"), label \in LabelSet, ok \in BOOLEAN :
        Edits(Series_remove_label(M, o, label, ok))

CallPatientRemoveEmptyStudies ==
    \E o \in Proxies("Patient") : Prunes(Patient_remove_empty_studies(heap, o))

CallStudyRemoveEmptySeries ==
    \E o \in Proxies("Study") : Prunes(Study_remove_empty_series(heap, o))

CallSeriesRemoveEmptyInstances ==
    \E o \in Proxies("Series") : Prunes(Series_remove_empty_instances(heap, o))

\* The proxy the caller constructed itself: the first of the heap.
Root == 1

\* Faulty variant: assigning the lock attribute drops both caches.
SetLock_clear ==
    \E value \in BOOLEAN :
        /\ heap[Root].lock # value
        /\ used < MaxEvents
        /\ used' = used + 1
        /\ heap' = [heap EXCEPT ![Root].lock = value,
                                ![Root].information = None,
                                ![Root].child_resources = None]
        /\ ghost' = [ghost EXCEPT ![Root].assigned = TRUE]
        /\ UNCHANGED remote_labels
        /\ UNCHANGED others

\* The caller assigns the lock attribute of the proxy it constructed:
\* resource.lock = value.
SetLock ==
    \E value \in BOOLEAN :
        /\ heap[Root].lock # value
        /\ used < MaxEvents
        /\ used' = used + 1
        /\ heap' = [heap EXCEPT ![Root].lock = value]
        /\ ghost' = [ghost EXCEPT ![Root].assigned = TRUE]
        /\ UNCHANGED remote_labels
        /\ UNCHANGED others

\* The series handed out by the cached list of study p while p is locked.
CachedSeriesOf(h, p) ==
    IF h[p].cls = "Study" /\ h[p].lock /\ h[p].child_resources # None
    THEN {Get(h[p].child_resources)[i] : i \in 1..Len(Get(h[p].child_resources))}
    ELSE {}

\* The caller empties the cached instance list of a series it got from a
\* locked study: for series in study.series: series._child_resources = [].
SetChildResourcesEmpty ==
    \E p \in 1..Len(heap) : \E o \in CachedSeriesOf(heap, p) :
        /\ heap[o].child_resources # Some(<<>>)
        /\ heap' = [heap EXCEPT ![o].child_resources = Some(<<>>)]
        /\ UNCHANGED <<ghost, remote_labels, used>>
        /\ UNCHANGED others

----------------------------------------------------------------------------
(* Specification *)

\* The proxies a caller starts from: a Patient built on one client or a
\* Series built on another.
Roots == {<<"Patient", "P1", "c1">>, <<"Series", "E1", "c2">>}

\* No thread is inside a call.
Idle ==
    [pc |-> "idle", op |-> "none", got |-> None, ret |-> None,
     error |-> "none", sent |-> 0]

\* The caller constructs a root proxy by identifier, locked or not.
Init ==
    /\ \E root \in Roots, lock \in BOOLEAN :
          /\ heap = <<Resource(root[1], root[2], root[3], lock)>>
          /\ ghost = <<NewGhost>>
    /\ remote_labels = [id \in EntityIds |-> {}]
    /\ used = 0
    /\ remote_protected = [id \in AllPatientIds |-> FALSE]
    /\ threads = [t \in Threads |-> Idle]

Next ==
    \/ CallPatientGetMainInformation
    \/ CallStudyGetMainInformation
    \/ CallSeriesGetMainInformation
    \/ CallPatientStudies
    \/ CallStudySeries
    \/ CallSeriesInstances
    \/ CallPatientLabels
    \/ CallSeriesLabels
    \/ CallPatientAddLabel
    \/ CallPatientRemoveLabel
    \/ CallSeriesAddLabel
    \/ CallSeriesRemoveLabel
    \/ CallPatientRemoveEmptyStudies
    \/ CallStudyRemoveEmptySeries
    \/ CallSeriesRemoveEmptyInstances
    \/ SetLock
    \/ SetChildResourcesEmpty

Spec == Init /\ [][Next]_vars

----------------------------------------------------------------------------
(* Properties.  A property quantifies over the calls the caller can make in *)
(* a reachable state and looks at the outcome the method gives there.       *)

\* The proxies whose class is in the source: Patient and Series.
Resources == Proxies("Patient") \cup Proxies("Series")

\* The lock flag of o is true and has been so since construction.
LockedThroughout(o) == heap[o].lock /\ ~ghost[o].assigned

\* The method of o's own class.
GetMainInformation(m, o, ok) ==
    IF m.heap[o].cls = "Patient" THEN Patient_get_main_information(m, o, ok)
    ELSE Series_get_main_information(m, o, ok)

ChildAccessor(m, o, ok) ==
    IF m.heap[o].cls = "Patient" THEN Patient_studies(m, o, ok)
    ELSE Series_instances(m, o, ok)

Labels(m, o, ok) ==
    IF m.heap[o].cls = "Patient" THEN Patient_labels(m, o, ok)
    ELSE Series_labels(m, o, ok)

AddLabel(m, o, label, ok) ==
    IF m.heap[o].cls = "Patient" THEN Patient_add_label(m, o, label, ok)
    ELSE Series_add_label(m, o, label, ok)

RemoveLabel(m, o, label, ok) ==
    IF m.heap[o].cls = "Patient" THEN Patient_remove_label(m, o, label, ok)
    ELSE Series_remove_label(m, o, label, ok)

\* The document the server would answer with now.
Fresh(o) == Some(RemoteDocument(remote_labels, heap[o].id_))

\* C1: a Patient or Series locked since construction has had at most one
\* metadata fetch answered, whatever calls were made on it; its cached
\* document is set exactly when that fetch was answered; once it is set,
\* get_main_information returns it, and neither that call nor labels nor the
\* child accessor issues a fetch or changes anything; while it is unset a
\* call issues one fetch and, when answered, stores what it returns.
C1_AtMostOneFetchWhileLocked ==
    \A o \in Resources :
        LockedThroughout(o) =>
            /\ ghost[o].fetches <= 1
            /\ (heap[o].information # None) = (ghost[o].fetches = 1)
            /\ \A ok \in BOOLEAN :
                   LET g == GetMainInformation(M, o, ok)
                       l == Labels(M, o, ok)
                       c == ChildAccessor(M, o, ok)
                   IN  IF heap[o].information # None
                       THEN /\ g.ret = heap[o].information
                            /\ g.nfetch = 0 /\ g.m = M
                            /\ l.nfetch = 0 /\ l.m = M
                            /\ c.nfetch = 0 /\ c.m.ghost[o] = ghost[o]
                       ELSE /\ g.nfetch = 1 /\ l.nfetch = 1 /\ c.nfetch <= 1
                            /\ g.m.heap[o].information = g.ret
                            /\ g.m.ghost[o].fetches = IF ok THEN 1 ELSE 0

\* C1 witness: a Patient locked since construction, read through
\* get_main_information and studies with one fetch, holds a document that
\* the server has since replaced.
C1_Witness ==
    \E o \in Proxies("Patient") :
        /\ LockedThroughout(o)
        /\ ghost[o].fetches = 1
        /\ heap[o].information # None
        /\ heap[o].child_resources # None
        /\ heap[o].information # Fresh(o)

\* C2: while the lock flag of a Patient or Series is false, every
\* get_main_information call issues one fetch, returns the server's present
\* document (never the cached one) and leaves the heap as it was; every
\* child-accessor read issues one fetch, returns one newly built proxy per
\* identifier the server lists, and writes no field of an existing proxy.
C2_UnlockedReadsAreFresh ==
    \A o \in Resources :
        ~heap[o].lock =>
            \A ok \in BOOLEAN :
                LET g == GetMainInformation(M, o, ok)
                    c == ChildAccessor(M, o, ok)
                    ids == RemoteChildren(heap[o].id_)
                IN  /\ g.nfetch = 1
                    /\ g.ret = (IF ok THEN Fresh(o) ELSE None)
                    /\ g.m.heap = heap
                    /\ c.nfetch = 1
                    /\ SubSeq(c.m.heap, 1, Len(heap)) = heap
                    /\ IF ok
                       THEN /\ c.ret # None
                            /\ c.nnew = Len(ids)
                            /\ Len(c.m.heap) = Len(heap) + Len(ids)
                            /\ Get(c.ret) = [i \in 1..Len(ids) |-> Len(heap) + i]
                            /\ \A i \in 1..Len(ids) :
                                   c.m.heap[Len(heap) + i].id_ = ids[i]
                       ELSE c.ret = None /\ c.m.heap = heap

\* C2 witness: a resource read while locked and read again after its lock
\* flag was set to false: two fetches were answered, and its caches are set.
C2_Witness ==
    \E o \in Resources :
        /\ ~heap[o].lock
        /\ ghost[o].fetches >= 2
        /\ heap[o].information # None

\* C3 as stated: in every reachable state, lock = false implies that the
\* cached information and the cached children are both unset.
C3_UnlockedImpliesUnset ==
    \A o \in 1..Len(heap) :
        ~heap[o].lock =>
            heap[o].information = None /\ heap[o].child_resources = None

\* C3 amended: a resource whose lock flag is false and has not been assigned
\* since construction has both caches unset.  (Assigning lock = false to a
\* resource that was read while locked clears nothing.)
C3_NeverLockedImpliesUnset ==
    \A o \in 1..Len(heap) :
        (~heap[o].lock /\ ~ghost[o].assigned) =>
            heap[o].information = None /\ heap[o].child_resources = None

\* C3 witness: a resource unlocked since construction has answered a read
\* and its caches are unset.
C3_Witness ==
    \E o \in Resources :
        /\ ~heap[o].lock /\ ~ghost[o].assigned
        /\ ghost[o].fetches >= 1
        /\ heap[o].information = None /\ heap[o].child_resources = None

\* The cached child list of o in heap h, when it is set.
Cached(h, o) == h[o].child_resources # None
Kids(h, o) == Get(h[o].child_resources)
KidSet(h, o) == {Kids(h, o)[i] : i \in 1..Len(Kids(h, o))}

\* C4: under lock, a child-accessor read that finds the cached list set
\* returns it and does nothing else (no get_main_information call, no
\* fetch, no proxy built, nothing written); a read that finds it unset calls
\* get_main_information once, stores the sequence it returns, and the next
\* read returns that same sequence with nothing fetched or built.
C4_LockedChildrenBuiltOnce ==
    \A o \in Resources :
        heap[o].lock =>
            \A ok \in BOOLEAN :
                LET c == ChildAccessor(M, o, ok)
                IN  IF Cached(heap, o)
                    THEN c = Outcome(M, heap[o].child_resources, 0, 0, 0)
                    ELSE /\ c.ngmi = 1
                         /\ c.nfetch = (IF heap[o].information = None THEN 1 ELSE 0)
                         /\ IF c.ret = None
                            THEN c.m.heap = heap
                            ELSE /\ c.m.heap[o].child_resources = c.ret
                                 /\ \A again \in BOOLEAN :
                                        ChildAccessor(c.m, o, again)
                                            = Outcome(c.m, c.ret, 0, 0, 0)

\* C4 witness: a locked Patient and a locked Series each hold a non-empty
\* cached child list, built with the one fetch answered through each.
C4_Witness ==
    /\ \E o \in Proxies("Patient") :
           /\ heap[o].lock /\ Cached(heap, o) /\ Kids(heap, o) # <<>>
           /\ ghost[o].fetches = 1
    /\ \E o \in Proxies("Series") :
           /\ heap[o].lock /\ Cached(heap, o) /\ Kids(heap, o) # <<>>
           /\ ghost[o].fetches = 1

\* The sequence refs of heap h holds one proxy per identifier of ids, in
\* order, each with the client and the lock flag of parent o.
OnePerIdentifier(h, refs, ids, o) ==
    /\ Len(refs) = Len(ids)
    /\ \A i \in 1..Len(refs) :
           /\ h[refs[i]].id_ = ids[i]
           /\ h[refs[i]].client = heap[o].client
           /\ h[refs[i]].lock = heap[o].lock

\* Every proxy was reached from the root: if the root's lock flag was never
\* assigned, all carry it; all share its client.
RootFlagEverywhere ==
    \A o \in 1..Len(heap) :
        /\ heap[o].client = heap[Root].client
        /\ ~ghost[Root].assigned => heap[o].lock = heap[Root].lock

\* Position of identifier id in the sequence ids (identifiers are distinct).
PositionIn(ids, id) == CHOOSE j \in 1..Len(ids) : ids[j] = id

\* The sequence refs of heap h holds proxies of distinct identifiers of ids,
\* in the order of ids, each with the client and the lock flag of parent o.
InOrderOf(h, refs, ids, o) ==
    /\ \A i \in 1..Len(refs) :
           /\ \E j \in 1..Len(ids) : ids[j] = h[refs[i]].id_
           /\ h[refs[i]].client = heap[o].client
           /\ h[refs[i]].lock = heap[o].lock
    /\ \A i, k \in 1..Len(refs) :
           i < k => PositionIn(ids, h[refs[i]].id_) < PositionIn(ids, h[refs[k]].id_)

\* C5: every sequence a child accessor produces, that is builds, on an
\* unlocked read or on the locked read that fills the cache, holds exactly
\* one new proxy per identifier of the metadata's child list, in the same
\* order, each with the parent's client and the parent's lock flag at that
\* moment; a locked read served from the cache returns proxies that still
\* have the parent's client and lock flag and follow the metadata's order
\* (pruning may have dropped some); and every proxy reached from a root
\* whose lock was never assigned has the root's lock flag.
C5_BuiltSequenceMatchesMetadata ==
    /\ RootFlagEverywhere
    /\ \A o \in Resources :
           LET c == ChildAccessor(M, o, TRUE)
               doc == GetMainInformation(M, o, TRUE).ret
           IN  /\ InOrderOf(c.m.heap, Get(c.ret), Get(doc).Children, o)
               /\ ~(heap[o].lock /\ Cached(heap, o)) =>
                      /\ c.nnew = Len(Get(doc).Children)
                      /\ Get(c.ret) = NewRefs(Len(heap), c.nnew)
                      /\ OnePerIdentifier(c.m.heap, Get(c.ret), Get(doc).Children, o)

\* C5 witness: from a Patient root whose lock flag was never assigned the
\* traversal has reached the Instance level, through locked child lists.
C5_Witness ==
    /\ heap[Root].cls = "Patient" /\ ~ghost[Root].assigned
    /\ \E o \in Proxies("Instance") : heap[o].lock
    /\ \E o \in Proxies("Series") : Cached(heap, o) /\ Kids(heap, o) # <<>>

\* Patient p has cached studies, each with cached series, each with a cached
\* instance list.
FullyCached(p) ==
    /\ Cached(heap, p)
    /\ \A s \in KidSet(heap, p) :
           /\ Cached(heap, s)
           /\ \A e \in KidSet(heap, s) : Cached(heap, e)

\* C6: for a locked Patient p cached down to the instance lists, a study s
\* of p and a series e of s: once e's cached instance list is set to empty,
\* remove_empty_series on s leaves in s's list exactly the series other than
\* e whose instance list is not empty, in their order, and changes no other
\* field; remove_empty_studies on p then keeps exactly the studies whose
\* series list is not empty afterwards, in their order.
C6_PruneRemovesExactlyTheEmptied ==
    \A p \in Proxies("Patient") :
        (heap[p].lock /\ FullyCached(p)) =>
            \A s \in KidSet(heap, p) : \A e \in KidSet(heap, s) :
                LET h1 == [heap EXCEPT ![e].child_resources = Some(<<>>)]
                    h2 == Study_remove_empty_series(h1, s)
                    h3 == Patient_remove_empty_studies(h2, p)
                    keptSeries ==
                        SelectSeq(Kids(heap, s),
                                  LAMBDA c : c # e /\ Kids(heap, c) # <<>>)
                    keptStudies ==
                        SelectSeq(Kids(heap, p),
                                  LAMBDA t : \E c \in KidSet(heap, t) :
                                                 c # e /\ Kids(heap, c) # <<>>)
                IN  /\ h2 = [h1 EXCEPT ![s].child_resources = Some(keptSeries)]
                    /\ h3 = [h2 EXCEPT ![p].child_resources = Some(keptStudies)]

\* C6 witness: both prunes have run on a locked Patient: of the two studies
\* the server lists one is left, and of its two series one is left, the one
\* whose instance list is not empty.
C6_Witness ==
    \E p \in Proxies("Patient") :
        /\ heap[p].lock /\ FullyCached(p)
        /\ Len(Kids(heap, p)) = 1
        /\ \A s \in KidSet(heap, p) :
               /\ Len(Kids(heap, s)) = 1
               /\ Len(RemoteChildren(heap[s].id_)) = 2
               /\ \A e \in KidSet(heap, s) : Kids(heap, e) # <<>>

\* C7: a locked resource whose cached child list is the empty sequence
\* answers its child accessor with the empty sequence: no fetch, no
\* get_main_information call, no proxy built, nothing written, whatever
\* children the server lists for it.
C7_EmptiedCacheIsPopulated ==
    \A o \in Resources :
        (heap[o].lock /\ heap[o].child_resources = Some(<<>>)) =>
            \A ok \in BOOLEAN :
                ChildAccessor(M, o, ok) = Outcome(M, Some(<<>>), 0, 0, 0)

\* C7 witness: pruning has emptied the cached study list of a locked
\* Patient whose server entity still lists studies.
C7_Witness ==
    \E o \in Proxies("Patient") :
        /\ heap[o].lock /\ heap[o].child_resources = Some(<<>>)
        /\ RemoteChildren(heap[o].id_) # <<>>
        /\ heap[o].information # None

\* A step of one of the pruning methods.
PruneStep ==
    \/ CallPatientRemoveEmptyStudies
    \/ CallStudyRemoveEmptySeries
    \/ CallSeriesRemoveEmptyInstances

\* Pruning proxy o leaves the whole heap as it is.
PruneIsNoOp(o) ==
    CASE heap[o].cls = "Patient" -> Patient_remove_empty_studies(heap, o) = heap
      [] heap[o].cls = "Study" -> Study_remove_empty_series(heap, o) = heap
      [] heap[o].cls = "Series" -> Series_remove_empty_instances(heap, o) = heap
      [] OTHER -> TRUE

\* C8: a pruning step leaves the server's labels, the count of fetches
\* answered through every proxy and the event count unchanged (it sends
\* nothing), and pruning a resource whose child list is unset changes no
\* field of any proxy.
C8_PruneIsLocal ==
    /\ [](\A o \in 1..Len(heap) : ~Cached(heap, o) => PruneIsNoOp(o))
    /\ [][PruneStep => UNCHANGED <<remote_labels, ghost, used>>]_vars

\* C8 witness: a prune has shortened a Study's cached series list and kept
\* in it a Series whose instance list was never materialized.
C8_Witness ==
    \E s \in Proxies("Study") :
        /\ Cached(heap, s)
        /\ Len(Kids(heap, s)) < Len(RemoteChildren(heap[s].id_))
        /\ \E e \in KidSet(heap, s) :
               ~Cached(heap, e) /\ heap[e].information = None

\* C9: add_label and remove_label send one label request and no fetch, and
\* change no proxy field and no history; on a locked resource with cached
\* metadata the labels read after the edit is the cached list, the one read
\* before the edit, whatever the server now holds.
C9_LabelEditsLeaveCacheStale ==
    \A o \in Resources : \A x \in LabelSet : \A ok \in BOOLEAN :
        \A e \in {AddLabel(M, o, x, ok), RemoveLabel(M, o, x, ok)} :
            /\ e.nlabel = 1 /\ e.nfetch = 0
            /\ e.m.heap = heap /\ e.m.ghost = ghost
            /\ e.raised = ~ok
            /\ (heap[o].lock /\ heap[o].information # None) =>
                   \A again \in BOOLEAN :
                       /\ Labels(e.m, o, again).ret = Some(Get(heap[o].information).Labels)
                       /\ Labels(e.m, o, again).ret = Labels(M, o, again).ret
                       /\ Labels(e.m, o, again).m = e.m
                       /\ Labels(e.m, o, again).nfetch = 0

\* C9 witness: a locked resource holds cached metadata without label "a"
\* while the server, after a label edit, holds "a" for it.
C9_Witness ==
    \E o \in Resources :
        /\ heap[o].lock /\ heap[o].information # None
        /\ "a" \notin Get(heap[o].information).Labels
        /\ "a" \in remote_labels[heap[o].id_]

\* C10: on an unlocked resource, when the server applies the requests, the
\* labels read after add_label(x) holds x, and the labels read after a
\* following remove_label(x) does not.
C10_UnlockedLabelsFollowEdits ==
    \A o \in Resources : \A x \in LabelSet :
        ~heap[o].lock =>
            LET added == AddLabel(M, o, x, TRUE)
                read1 == Labels(added.m, o, TRUE)
                removed == RemoveLabel(read1.m, o, x, TRUE)
                read2 == Labels(removed.m, o, TRUE)
            IN  /\ read1.ret # None /\ x \in Get(read1.ret)
                /\ read2.ret # None /\ x \notin Get(read2.ret)
                /\ read1.nfetch = 1 /\ read2.nfetch = 1

\* C10 witness: an unlocked resource has had a label added and has been read
\* since, and the server holds the label.
C10_Witness ==
    \E o \in Resources :
        /\ ~heap[o].lock /\ ~ghost[o].assigned
        /\ "a" \in remote_labels[heap[o].id_]
        /\ ghost[o].fetches >= 1

----------------------------------------------------------------------------
(* Requests that create or change something on the server: anonymize,      *)
(* get_patient_module, protected                                           *)

\* The errors a call can end with.
NoError == "none"
ValueError == "ValueError"
RemoteError == "RemoteError"

\* What such a call hands back: the machine after it, the returned value
\* (None when it raised), the error it raised, and how many requests it sent.
Requested(m, ret, error, nrequest) ==
    [m |-> m, ret |-> ret, error |-> error, nrequest |-> nrequest]

\* Resource.__init__: the lock flag of a resource built without one.
DefaultLock == FALSE

\* Job(id, client)
Job(id, client) == [cls |-> "Job", id_ |-> id, client |-> client]

\* The server answering POST /patients/{id}/anonymize: the document
\* {'ID': ...} of the job when data['Asynchronous'], else of the new
\* patient; None when the request raises.
post_patients_id_anonymize(id, data, created, job, ok) ==
    IF ~ok THEN None
    ELSE Some([ID |-> IF data.Asynchronous THEN job ELSE created])

\* The server answering POST /series/{id}/anonymize.
post_series_id_anonymize(id, data, created, job, ok) ==
    IF ~ok THEN None
    ELSE Some([ID |-> IF data.Asynchronous THEN job ELSE created])

\* The machine with one more proxy, r, at the end of the heap.
Allocate(m, r) ==
    [m EXCEPT !.heap = Append(@, r), !.ghost = Append(@, NewGhost)]

\* Faulty variant: anonymize renames the resource it was called on and
\* returns it.
Patient_anonymize_in_place(m, o, asynchronous, created, job, ok) ==
    LET self == m.heap[o]
        answer == post_patients_id_anonymize(
                      self.id_, [Asynchronous |-> asynchronous], created, job, ok)
    IN  IF answer = None THEN Requested(m, None, RemoteError, 1)
        ELSE IF asynchronous
             THEN Requested(m, Some(Job(Get(answer).ID, self.client)), NoError, 1)
             ELSE Requested([m EXCEPT !.heap[o].id_ = Get(answer).ID],
                            Some(o), NoError, 1)

\* Patient.anonymize; created and job are the identifiers the server picks.
Patient_anonymize(m, o, asynchronous, created, job, ok) ==
    LET self == m.heap[o]
        answer == post_patients_id_anonymize(
                      self.id_, [Asynchronous |-> asynchronous], created, job, ok)
    IN  IF answer = None THEN Requested(m, None, RemoteError, 1)
        ELSE IF asynchronous
             THEN Requested(m, Some(Job(Get(answer).ID, self.client)), NoError, 1)
             ELSE Requested(
                      Allocate(m, Resource("Patient", Get(answer).ID,
                                           self.client, DefaultLock)),
                      Some(Len(m.heap) + 1), NoError, 1)

\* Faulty variant: the cached information is dropped before the request is
\* sent, so it is gone when the request raises.
Series_anonymize_forgetful(m, o, asynchronous, created, job, ok) ==
    LET self == m.heap[o]
        dropped == [m EXCEPT !.heap[o].information = None]
        answer == post_series_id_anonymize(
                      self.id_, [Asynchronous |-> asynchronous], created, job, ok)
    IN  IF answer = None THEN Requested(dropped, None, RemoteError, 1)
        ELSE IF asynchronous
             THEN Requested(m, Some(Job(Get(answer).ID, self.client)), NoError, 1)
             ELSE Requested(
                      Allocate(m, Resource("Series", Get(answer).ID,
                                           self.client, DefaultLock)),
                      Some(Len(m.heap) + 1), NoError, 1)

\* Series.anonymize
Series_anonymize(m, o, asynchronous, created, job, ok) ==
    LET self == m.heap[o]
        answer == post_series_id_anonymize(
                      self.id_, [Asynchronous |-> asynchronous], created, job, ok)
    IN  IF answer = None THEN Requested(m, None, RemoteError, 1)
        ELSE IF asynchronous
             THEN Requested(m, Some(Job(Get(answer).ID, self.client)), NoError, 1)
             ELSE Requested(
                      Allocate(m, Resource("Series", Get(answer).ID,
                                           self.client, DefaultLock)),
                      Some(Len(m.heap) + 1), NoError, 1)

\* The thread of the single caller.
Caller == 1

\* Call op returned (or raised) to the single caller: the machine moves to
\* its outcome and the caller holds what the call handed back; a request
\* the server answered is an event.
Requests(op, r) ==
    /\ heap' = r.m.heap
    /\ ghost' = r.m.ghost
    /\ remote_labels' = r.m.labels
    /\ remote_protected' = r.m.protected
    /\ IF r.error # NoError \/ r.nrequest = 0
       THEN UNCHANGED used
       ELSE /\ used < MaxEvents
            /\ used' = used + 1
    /\ threads' = [threads EXCEPT ![Caller] =
                       [pc |-> IF r.error = NoError THEN "done" ELSE "raised",
                        op |-> op, got |-> None, ret |-> r.ret,
                        error |-> r.error, sent |-> r.nrequest]]

CallPatientAnonymize ==
    \E o \in Proxies("Patient"), asynchronous \in BOOLEAN, ok \in BOOLEAN :
        \E created \in AnonymousPatientIds, job \in JobIds :
            Requests("anonymize", Patient_anonymize(M, o, asynchronous, created, job, ok))

CallSeriesAnonymize ==
    \E o \in Proxies("Series"), asynchronous \in BOOLEAN, ok \in BOOLEAN :
        \E created \in AnonymousSeriesIds, job \in JobIds :
            Requests("anonymize", Series_anonymize(M, o, asynchronous, created, job, ok))

\* The server answering GET /patients/{id}/module with the given query
\* parameters: the patient module in the format they ask for.
get_patients_id_module(id, params, ok) ==
    IF ok THEN Some([ID |-> id, Format |-> params]) ELSE None

\* Faulty variant: the flags are checked after the request was sent.
Patient_get_patient_module_late_check(m, o, simplify, short, ok) ==
    LET self == m.heap[o]
        params == IF simplify /\ ~short THEN {"simplify"}
                  ELSE IF short /\ ~simplify THEN {"short"}
                  ELSE {}
        answer == get_patients_id_module(self.id_, params, ok)
    IN  IF simplify /\ short THEN Requested(m, None, ValueError, 1)
        ELSE IF answer = None THEN Requested(m, None, RemoteError, 1)
        ELSE Requested(m, answer, NoError, 1)

\* Patient.get_patient_module
Patient_get_patient_module(m, o, simplify, short, ok) ==
    LET self == m.heap[o]
        params == IF simplify /\ ~short THEN {"simplify"}
                  ELSE IF short /\ ~simplify THEN {"short"}
                  ELSE {}
        answer == get_patients_id_module(self.id_, params, ok)
    IN  IF ~(simplify /\ ~short) /\ ~(short /\ ~simplify) /\ (simplify /\ short)
        THEN Requested(m, None, ValueError, 0)
        ELSE IF answer = None THEN Requested(m, None, RemoteError, 1)
        ELSE Requested(m, answer, NoError, 1)

\* The server answering GET /patients/{id}/protected: '1' or '0'.
get_patients_id_protected(protected, id, ok) ==
    IF ok THEN Some(IF protected[id] THEN "1" ELSE "0") ELSE None

\* The server applying PUT /patients/{id}/protected with body json: 1
\* protects the patient, 0 unprotects it.
put_patients_id_protected(protected, id, json) ==
    [protected EXCEPT ![id] = (json = 1)]

\* Patient.protected (getter)
Patient_protected(m, o, ok) ==
    LET self == m.heap[o]
        answer == get_patients_id_protected(m.protected, self.id_, ok)
    IN  IF answer = None THEN Requested(m, None, RemoteError, 1)
        ELSE Requested(m, Some("1" = Get(answer)), NoError, 1)

\* Faulty variant: the setter sends 1 whatever the value.
Patient_set_protected_always(m, o, value, ok) ==
    LET self == m.heap[o]
        json == 1
    IN  IF ok
        THEN Requested([m EXCEPT !.protected =
                            put_patients_id_protected(@, self.id_, json)],
                       None, NoError, 1)
        ELSE Requested(m, None, RemoteError, 1)

\* Patient.protected (setter)
Patient_set_protected(m, o, value, ok) ==
    LET self == m.heap[o]
        json == IF value THEN 1 ELSE 0
    IN  IF ok
        THEN Requested([m EXCEPT !.protected =
                            put_patients_id_protected(@, self.id_, json)],
                       None, NoError, 1)
        ELSE Requested(m, None, RemoteError, 1)

\* Patient.is_protected
Patient_is_protected(m, o, ok) == Patient_protected(m, o, ok)

\* Patient.set_to_protected
Patient_set_to_protected(m, o, ok) == Patient_set_protected(m, o, TRUE, ok)

\* Patient.set_to_unprotected
Patient_set_to_unprotected(m, o, ok) == Patient_set_protected(m, o, FALSE, ok)

CallPatientGetPatientModule ==
    \E o \in Proxies("Patient"), simplify \in BOOLEAN, short \in BOOLEAN :
        \E ok \in BOOLEAN :
            Requests("get_patient_module", Patient_get_patient_module(M, o, simplify, short, ok))

CallPatientProtected ==
    \E o \in Proxies("Patient"), ok \in BOOLEAN :
        Requests("protected", Patient_protected(M, o, ok))

CallPatientSetProtected ==
    \E o \in Proxies("Patient"), value \in BOOLEAN, ok \in BOOLEAN :
        Requests("protected.setter", Patient_set_protected(M, o, value, ok))

CallPatientIsProtected ==
    \E o \in Proxies("Patient"), ok \in BOOLEAN :
        Requests("is_protected", Patient_is_protected(M, o, ok))

CallPatientSetToProtected ==
    \E o \in Proxies("Patient"), ok \in BOOLEAN :
        Requests("set_to_protected", Patient_set_to_protected(M, o, ok))

CallPatientSetToUnprotected ==
    \E o \in Proxies("Patient"), ok \in BOOLEAN :
        Requests("set_to_unprotected", Patient_set_to_unprotected(M, o, ok))

NextRequests ==
    \/ CallPatientAnonymize
    \/ CallSeriesAnonymize
    \/ CallPatientGetPatientModule
    \/ CallPatientProtected
    \/ CallPatientSetProtected
    \/ CallPatientIsProtected
    \/ CallPatientSetToProtected
    \/ CallPatientSetToUnprotected
    \/ CallPatientGetMainInformation
    \/ CallSeriesGetMainInformation
    \/ CallPatientStudies
    \/ CallSeriesInstances
    \/ CallPatientAddLabel
    \/ CallPatientRemoveLabel
    \/ CallSeriesAddLabel
    \/ CallSeriesRemoveLabel
    \/ SetLock

\* A single caller that anonymizes, reads the patient module, toggles the
\* protection and edits labels.
SpecRequests == Init /\ [][NextRequests]_vars

----------------------------------------------------------------------------
(* Properties of the requests *)

\* anonymize of the class of proxy o.
Anonymize(m, o, asynchronous, created, job, ok) ==
    IF m.heap[o].cls = "Patient"
    THEN Patient_anonymize(m, o, asynchronous, created, job, ok)
    ELSE Series_anonymize(m, o, asynchronous, created, job, ok)

\* The identifiers the server can give to what anonymizing proxy o creates.
AnonymousIds(o) ==
    IF heap[o].cls = "Patient" THEN AnonymousPatientIds ELSE AnonymousSeriesIds

\* C11: anonymize on a Patient or Series sends exactly one request and
\* leaves every proxy that existed, the one it was called on included, as
\* it was (identifier, lock flag, cached information, cached children); when
\* the server answers, in synchronous mode it returns a new proxy of the
\* same class whose identifier is the returned ID and whose caches are
\* unset, and in asynchronous mode it returns a Job with the returned ID and
\* builds no proxy.
C11_AnonymizeReturnsNewResource ==
    \A o \in Resources : \A asynchronous \in BOOLEAN, ok \in BOOLEAN :
        \A created \in AnonymousIds(o), job \in JobIds :
            LET r == Anonymize(M, o, asynchronous, created, job, ok)
                n == Len(heap) + 1
            IN  /\ r.nrequest = 1
                /\ \A i \in 1..Len(heap) : r.m.heap[i] = heap[i]
                /\ r.m.labels = remote_labels /\ r.m.protected = remote_protected
                /\ (ok /\ ~asynchronous) =>
                       /\ r.ret = Some(n) /\ Len(r.m.heap) = n
                       /\ r.m.heap[n].cls = heap[o].cls
                       /\ r.m.heap[n].id_ = created
                       /\ r.m.heap[n].client = heap[o].client
                       /\ r.m.heap[n].information = None
                       /\ r.m.heap[n].child_resources = None
                /\ (ok /\ asynchronous) =>
                       /\ r.ret = Some(Job(job, heap[o].client))
                       /\ r.m.heap = heap
                /\ ~ok => r.ret = None /\ r.m.heap = heap

\* C11 witness: a locked Patient with cached information and cached studies
\* has been anonymized: it keeps its identifier and caches, and the new
\* Patient stands beside it with the server's identifier and unset caches.
C11_Witness ==
    \E o, n \in Proxies("Patient") :
        /\ heap[o].id_ \in PatientIds /\ heap[o].lock
        /\ heap[o].information # None /\ heap[o].child_resources # None
        /\ heap[n].id_ \in AnonymousPatientIds
        /\ heap[n].information = None /\ heap[n].child_resources = None

\* The query parameters get_patient_module is to send for the two flags.
ExpectedParams(simplify, short) ==
    IF simplify THEN {"simplify"} ELSE IF short THEN {"short"} ELSE {}

\* C12: get_patient_module with simplify and short both true ends with
\* ValueError having sent no request and changed nothing; with any other
\* combination it sends exactly one module request, with the parameter the
\* flags ask for, and never ends with ValueError.  The caller holds the same:
\* a get_patient_module call that raised ValueError sent nothing.
C12_BothFlagsRaiseBeforeAnyRequest ==
    /\ \A o \in Proxies("Patient") :
           \A simplify \in BOOLEAN, short \in BOOLEAN, ok \in BOOLEAN :
               LET r == Patient_get_patient_module(M, o, simplify, short, ok)
               IN  /\ r.m = M
                   /\ IF simplify /\ short
                      THEN r = Requested(M, None, ValueError, 0)
                      ELSE /\ r.nrequest = 1
                           /\ r.error = (IF ok THEN NoError ELSE RemoteError)
                           /\ ok => r.ret = Some([ID |-> heap[o].id_,
                                                  Format |-> ExpectedParams(simplify, short)])
    /\ threads[Caller].op = "get_patient_module" =>
           /\ threads[Caller].error = ValueError <=> threads[Caller].sent = 0
           /\ threads[Caller].error = ValueError => threads[Caller].ret = None
           /\ threads[Caller].sent <= 1

\* C12 witness: the caller's get_patient_module call has ended with
\* ValueError, no request sent, after an earlier request had been answered.
C12_Witness ==
    /\ threads[Caller].op = "get_patient_module"
    /\ threads[Caller].pc = "raised"
    /\ threads[Caller].error = ValueError
    /\ threads[Caller].sent = 0
    /\ used >= 1

\* In the present state every mutating call on proxy o whose request raises
\* hands the error to the caller and leaves the machine as it is.
FailureChangesNothing(o) ==
    /\ \A x \in LabelSet :
           /\ AddLabel(M, o, x, FALSE) = Edited(M, TRUE, 1, 0)
           /\ RemoveLabel(M, o, x, FALSE) = Edited(M, TRUE, 1, 0)
    /\ \A asynchronous \in BOOLEAN, created \in AnonymousIds(o), job \in JobIds :
           Anonymize(M, o, asynchronous, created, job, FALSE)
               = Requested(M, None, RemoteError, 1)
    /\ heap[o].cls = "Patient" =>
           /\ \A value \in BOOLEAN :
                  Patient_set_protected(M, o, value, FALSE)
                      = Requested(M, None, RemoteError, 1)
           /\ Patient_set_to_protected(M, o, FALSE)
                  = Requested(M, None, RemoteError, 1)
           /\ Patient_set_to_unprotected(M, o, FALSE)
                  = Requested(M, None, RemoteError, 1)

\* C13: when the request of add_label, remove_label, anonymize or the
\* protected setter raises, the call ends with the remote's error and no
\* returned value, and every proxy (cached information, cached children,
\* lock flag, identifier), the history and the server are exactly as before
\* the call; a caller whose call raised holds an error and no value.
C13_FailedMutationChangesNothing ==
    /\ \A o \in Resources : FailureChangesNothing(o)
    /\ threads[Caller].pc = "raised" =>
           /\ threads[Caller].error # NoError
           /\ threads[Caller].ret = None

\* C13 witness: the caller's protected setter has raised the remote's error
\* on a locked Patient that still holds its cached information and cached
\* studies.
C13_Witness ==
    /\ threads[Caller].op = "protected.setter"
    /\ threads[Caller].pc = "raised"
    /\ threads[Caller].error = RemoteError
    /\ \E o \in Proxies("Patient") :
           /\ heap[o].lock /\ heap[o].id_ \in PatientIds
           /\ heap[o].information # None /\ heap[o].child_resources # None

\* C16: Patient.protected lives on the server alone.  The getter sends one
\* request, returns TRUE exactly when the server's flag is set (its answer
\* is '1') and changes nothing; a successful set sends one request, makes
\* the server's flag the value set and changes no proxy; so the get after a
\* set, and after two sets in a row, returns the value set last, whatever
\* the lock flag and the cached information of the proxy; set_to_protected
\* and set_to_unprotected are the sets of TRUE and FALSE and is_protected is
\* the getter.
C16_ProtectedIsRemoteToggle ==
    /\ \A o \in Proxies("Patient") :
           LET id == heap[o].id_
               flag == get_patients_id_protected(remote_protected, id, TRUE)
               g == Patient_protected(M, o, TRUE)
           IN  /\ g = Requested(M, Some(flag = Some("1")), NoError, 1)
               /\ g.ret = Some(remote_protected[id])
               /\ Patient_is_protected(M, o, TRUE) = g
               /\ \A first \in BOOLEAN, last \in BOOLEAN :
                      LET s1 == Patient_set_protected(M, o, first, TRUE)
                          s2 == Patient_set_protected(s1.m, o, last, TRUE)
                      IN  /\ s1.nrequest = 1 /\ s1.error = NoError
                          /\ s1.m = [M EXCEPT !.protected[id] = first]
                          /\ Patient_protected(s1.m, o, TRUE).ret = Some(first)
                          /\ Patient_protected(s2.m, o, TRUE).ret = Some(last)
                          /\ s2.m.heap = heap
               /\ Patient_protected(Patient_set_to_protected(M, o, TRUE).m,
                                    o, TRUE).ret = Some(TRUE)
               /\ Patient_protected(Patient_set_to_unprotected(M, o, TRUE).m,
                                    o, TRUE).ret = Some(FALSE)
    /\ (threads[Caller].op = "protected" /\ threads[Caller].pc = "done") =>
           \E id \in AllPatientIds :
               threads[Caller].ret = Some(remote_protected[id])

\* C16 witness: on a locked Patient with cached information the protection
\* was set and then read: the server's flag is set, the getter has returned
\* TRUE to the caller, and the cached document is as it was fetched.
C16_Witness ==
    /\ threads[Caller].op = "protected" /\ threads[Caller].pc = "done"
    /\ threads[Caller].ret = Some(TRUE)
    /\ used = 2
    /\ \E o \in Proxies("Patient") :
           /\ heap[o].lock /\ heap[o].information # None
           /\ remote_protected[heap[o].id_]

----------------------------------------------------------------------------
(* Accessors of the main DICOM tags *)

TagDoesNotExistError == "TagDoesNotExistError"

\* self.get_main_information() of the class of proxy o.
get_main_information(m, o, ok) ==
    CASE m.heap[o].cls = "Patient" -> Patient_get_main_information(m, o, ok)
      [] m.heap[o].cls = "Study" -> Study_get_main_information(m, o, ok)
      [] OTHER -> Series_get_main_information(m, o, ok)

\* Resource._get_main_dicom_tag_value(tag):
\* get_main_information()['MainDicomTags'][tag], TagDoesNotExistError when
\* the tag is not there.
get_main_dicom_tag_value(m, o, tag, ok) ==
    LET info == get_main_information(m, o, ok)
    IN  IF info.ret = None
        THEN Requested(info.m, None, RemoteError, info.nfetch)
        ELSE IF tag \in DOMAIN Get(info.ret).MainDicomTags
             THEN Requested(info.m, Some(Get(info.ret).MainDicomTags[tag]),
                            NoError, info.nfetch)
             ELSE Requested(info.m, None, TagDoesNotExistError, info.nfetch)

\* The accessors that hand back one tag (after a conversion of its value,
\* which is not modelled), and the tag each reads.
PatientTagOf(accessor) ==
    CASE accessor = "patient_id" -> "PatientID"
      [] accessor = "name" -> "PatientName"
      [] accessor = "birth_date" -> "PatientBirthDate"
      [] accessor = "sex" -> "PatientSex"
      [] accessor = "other_patient_ids" -> "OtherPatientIDs"

SeriesTagOf(accessor) ==
    CASE accessor = "uid" -> "SeriesInstanceUID"
      [] accessor = "manufacturer" -> "Manufacturer"
      [] accessor = "modality" -> "Modality"
      [] accessor = "series_number" -> "SeriesNumber"
      [] accessor = "description" -> "StudyDescription"

PatientTagAccessors == {"patient_id", "name", "birth_date", "sex", "other_patient_ids"}
SeriesTagAccessors == {"uid", "manufacturer", "modality", "series_number", "description"}

\* Patient.patient_id, name, birth_date, sex, other_patient_ids
Patient_tag(m, o, accessor, ok) ==
    get_main_dicom_tag_value(m, o, PatientTagOf(accessor), ok)

\* Faulty variant: an absent tag reads as the empty string.
Series_tag_default(m, o, accessor, ok) ==
    LET r == get_main_dicom_tag_value(m, o, SeriesTagOf(accessor), ok)
    IN  IF r.error = TagDoesNotExistError
        THEN Requested(r.m, Some(""), NoError, r.nrequest)
        ELSE r

\* Series.uid, manufacturer, modality, series_number, description
Series_tag(m, o, accessor, ok) ==
    get_main_dicom_tag_value(m, o, SeriesTagOf(accessor), ok)

\* The time of a datetime built from a date alone.
ZeroTime == "000000"

\* util.make_datetime_from_dicom_date(date_string, time_string)
make_datetime_from_dicom_date(date_string, time_string) ==
    [date |-> date_string,
     time |-> IF time_string = None THEN ZeroTime ELSE Get(time_string)]

\* Faulty variant: the absence of SeriesTime is not caught.
Series_date_strict(m, o, ok1, ok2) ==
    LET date_string == get_main_dicom_tag_value(m, o, "SeriesDate", ok1)
        time_string == get_main_dicom_tag_value(date_string.m, o, "SeriesTime", ok2)
        sent == date_string.nrequest + time_string.nrequest
    IN  IF date_string.error # NoError THEN date_string
        ELSE IF time_string.error # NoError
             THEN Requested(time_string.m, None, time_string.error, sent)
             ELSE Requested(time_string.m,
                            Some(make_datetime_from_dicom_date(
                                     Get(date_string.ret), time_string.ret)),
                            NoError, sent)

\* Series.date; ok1 and ok2 say whether the fetch of each of the two tag
\* reads is answered.
Series_date(m, o, ok1, ok2) ==
    LET date_string == get_main_dicom_tag_value(m, o, "SeriesDate", ok1)
        time_string == get_main_dicom_tag_value(date_string.m, o, "SeriesTime", ok2)
        sent == date_string.nrequest + time_string.nrequest
    IN  IF date_string.error # NoError THEN date_string
        ELSE IF time_string.error = TagDoesNotExistError
             THEN Requested(time_string.m,
                            Some(make_datetime_from_dicom_date(
                                     Get(date_string.ret), None)),
                            NoError, sent)
             ELSE IF time_string.error # NoError
                  THEN Requested(time_string.m, None, time_string.error, sent)
                  ELSE Requested(time_string.m,
                                 Some(make_datetime_from_dicom_date(
                                          Get(date_string.ret), time_string.ret)),
                                 NoError, sent)

\* A tag accessor returned (or raised) to the single caller.
Reads(op, r) ==
    /\ used + Cost(r) <= MaxEvents
    /\ used' = used + Cost(r)
    /\ heap' = r.m.heap
    /\ ghost' = r.m.ghost
    /\ UNCHANGED <<remote_labels, remote_protected>>
    /\ threads' = [threads EXCEPT ![Caller] =
                       [pc |-> IF r.error = NoError THEN "done" ELSE "raised",
                        op |-> op, got |-> None, ret |-> r.ret,
                        error |-> r.error, sent |-> r.nrequest]]

CallPatientTag ==
    \E o \in Proxies("Patient"), accessor \in PatientTagAccessors, ok \in BOOLEAN :
        Reads(accessor, Patient_tag(M, o, accessor, ok))

CallSeriesTag ==
    \E o \in Proxies("Series"), accessor \in SeriesTagAccessors, ok \in BOOLEAN :
        Reads(accessor, Series_tag(M, o, accessor, ok))

CallSeriesDate ==
    \E o \in Proxies("Series"), ok1 \in BOOLEAN, ok2 \in BOOLEAN :
        Reads("date", Series_date(M, o, ok1, ok2))

\* The proxies a caller of the tag accessors starts from.
TagRoots ==
    {<<"Patient", "P1", "c1">>, <<"Patient", "PX", "c1">>,
     <<"Series", "E1", "c2">>, <<"Series", "E2", "c2">>,
     <<"Series", "E3", "c2">>, <<"Series", "EX", "c2">>}

InitTags ==
    /\ \E root \in TagRoots, lock \in BOOLEAN :
          /\ heap = <<Resource(root[1], root[2], root[3], lock)>>
          /\ ghost = <<NewGhost>>
    /\ remote_labels = [id \in EntityIds |-> {}]
    /\ used = 0
    /\ remote_protected = [id \in AllPatientIds |-> FALSE]
    /\ threads = [t \in Threads |-> Idle]

NextTags ==
    \/ CallPatientTag
    \/ CallSeriesTag
    \/ CallSeriesDate
    \/ CallPatientGetMainInformation
    \/ CallSeriesGetMainInformation
    \/ SetLock

\* A single caller that reads tags of one patient or series.
SpecTags == InitTags /\ [][NextTags]_vars

----------------------------------------------------------------------------
(* Properties of the tag accessors *)

\* The accessors of the class of proxy o and the tag each reads.
TagAccessors(o) ==
    IF heap[o].cls = "Patient" THEN PatientTagAccessors ELSE SeriesTagAccessors

TagOf(o, accessor) ==
    IF heap[o].cls = "Patient" THEN PatientTagOf(accessor) ELSE SeriesTagOf(accessor)

Tag(m, o, accessor, ok) ==
    IF m.heap[o].cls = "Patient" THEN Patient_tag(m, o, accessor, ok)
    ELSE Series_tag(m, o, accessor, ok)

\* The read of proxy o gets a document: from its cache, or from a fetch
\* that is answered.
Answered(o, ok) == ok \/ (heap[o].lock /\ heap[o].information # None)

\* C14: an accessor of one main DICOM tag, when it gets the document, ends
\* with TagDoesNotExistError and no value if the tag is not in the
\* document's MainDicomTags, and with the tag's value if it is; it ends with
\* the remote's error, a different one, when the fetch raises.  It never
\* hands back a value for an absent tag.
C14_AbsentTagRaisesTagMissing ==
    /\ \A o \in Resources : \A accessor \in TagAccessors(o), ok \in BOOLEAN :
           LET r == Tag(M, o, accessor, ok)
               id == heap[o].id_
               tag == TagOf(o, accessor)
           IN  IF ~Answered(o, ok)
               THEN r.error = RemoteError /\ r.ret = None
               ELSE IF tag \in RemoteTags(id)
                    THEN r.error = NoError /\ r.ret = Some(TagValue(id, tag))
                    ELSE r.error = TagDoesNotExistError /\ r.ret = None
    /\ TagDoesNotExistError \notin {NoError, RemoteError, ValueError}
    /\ threads[Caller].error = TagDoesNotExistError =>
           threads[Caller].pc = "raised" /\ threads[Caller].ret = None

\* C14 witness: the caller's read of manufacturer on a locked Series whose
\* cached document has no Manufacturer tag has raised TagDoesNotExistError.
C14_Witness ==
    /\ threads[Caller].op = "manufacturer"
    /\ threads[Caller].pc = "raised"
    /\ threads[Caller].error = TagDoesNotExistError
    /\ heap[Root].cls = "Series" /\ heap[Root].lock
    /\ heap[Root].information # None
    /\ "Manufacturer" \notin DOMAIN Get(heap[Root].information).MainDicomTags

\* C15: Series.date, when both its reads get the document: with SeriesDate
\* present and SeriesTime absent it returns the date with the zero time;
\* with both present it returns the date with the time; with SeriesDate
\* absent it ends with TagDoesNotExistError, SeriesTime present or not.
C15_DateWithoutTimeIsValid ==
    \A o \in Proxies("Series") : \A ok1 \in BOOLEAN, ok2 \in BOOLEAN :
        LET r == Series_date(M, o, ok1, ok2)
            id == heap[o].id_
            first == Answered(o, ok1)
            second == ok2 \/ (heap[o].lock /\ first)
        IN  IF ~first THEN r.error = RemoteError
            ELSE IF "SeriesDate" \notin RemoteTags(id)
                 THEN r.error = TagDoesNotExistError /\ r.ret = None
                 ELSE IF ~second THEN r.error = RemoteError
                      ELSE /\ r.error = NoError
                           /\ r.ret = Some(
                                  [date |-> TagValue(id, "SeriesDate"),
                                   time |-> IF "SeriesTime" \in RemoteTags(id)
                                            THEN TagValue(id, "SeriesTime")
                                            ELSE ZeroTime])

\* C15 witness: the caller's read of date on a Series that has SeriesDate
\* and no SeriesTime has returned the date with the zero time.
C15_Witness ==
    /\ threads[Caller].op = "date" /\ threads[Caller].pc = "done"
    /\ threads[Caller].ret # None
    /\ Get(threads[Caller].ret).time = ZeroTime
    /\ heap[Root].cls = "Series"
    /\ RemoteTags(heap[Root].id_) \cap {"SeriesDate", "SeriesTime"} = {"SeriesDate"}

----------------------------------------------------------------------------
(* Two threads calling into the same resource.  A call is cut where another *)
(* thread can run in between: after a test of the fields, around the        *)
(* blocking request, after a store.                                         *)

\* self.client.get_{patients,studies,series}_id(id_) of the class of proxy o.
get_id(m, o, ok) ==
    CASE m.heap[o].cls = "Patient" -> get_patients_id(m.labels, m.heap[o].id_, ok)
      [] m.heap[o].cls = "Study" -> get_studies_id(m.labels, m.heap[o].id_, ok)
      [] OTHER -> get_series_id(m.labels, m.heap[o].id_, ok)

\* The class of the proxies a child accessor builds.
ChildClass(cls) ==
    CASE cls = "Patient" -> "Study"
      [] cls = "Study" -> "Series"
      [] OTHER -> "Instance"

\* Thread t moves on: only its own record and what it names change.
Step(t, record) == threads' = [threads EXCEPT ![t] = record]

\* Thread t, outside a call, calls get_main_information or the child
\* accessor of the root.
ThreadCall ==
    \E t \in Threads, op \in {"get_main_information", "children"} :
        /\ threads[t].pc \in {"idle", "done", "raised"}
        /\ Step(t, [Idle EXCEPT !.op = op,
                                !.pc = IF op = "children" THEN "children_check"
                                       ELSE "info_check"])
        /\ UNCHANGED <<heap, ghost, remote_labels, remote_protected, used>>

\* if self.lock: if self._child_resources is None: ... (the child accessor)
ThreadChildrenCheck ==
    \E t \in Threads :
        /\ threads[t].pc = "children_check"
        /\ Step(t, [threads[t] EXCEPT !.pc =
                        IF heap[Root].lock /\ heap[Root].child_resources # None
                        THEN "children_return" ELSE "info_check"])
        /\ UNCHANGED <<heap, ghost, remote_labels, remote_protected, used>>

\* if self.lock: if self._information is None: ... (get_main_information)
ThreadInfoCheck ==
    \E t \in Threads :
        /\ threads[t].pc = "info_check"
        /\ Step(t, [threads[t] EXCEPT !.pc =
                        IF ~heap[Root].lock THEN "fetch_unlocked"
                        ELSE IF heap[Root].information = None THEN "fetch"
                        ELSE "info_return"])
        /\ UNCHANGED <<heap, ghost, remote_labels, remote_protected, used>>

\* self.client.get_patients_id(self.id_): the blocking request, answered or
\* raising.
ThreadFetch ==
    \E t \in Threads, ok \in BOOLEAN :
        /\ threads[t].pc \in {"fetch", "fetch_unlocked"}
        /\ LET answer == get_id(M, Root, ok)
           IN  IF answer = None
               THEN /\ Step(t, [threads[t] EXCEPT !.pc = "raised",
                                                  !.error = RemoteError,
                                                  !.sent = @ + 1])
                    /\ UNCHANGED ghost
               ELSE /\ Step(t, [threads[t] EXCEPT
                                    !.pc = IF @ = "fetch" THEN "store"
                                           ELSE "info_returned",
                                    !.got = answer, !.sent = @ + 1])
                    /\ ghost' = [ghost EXCEPT ![Root].fetches = @ + 1]
        /\ UNCHANGED <<heap, remote_labels, remote_protected, used>>

\* self._information = <the answer>
ThreadStore ==
    \E t \in Threads :
        /\ threads[t].pc = "store"
        /\ heap' = [heap EXCEPT ![Root].information = threads[t].got]
        /\ Step(t, [threads[t] EXCEPT !.pc = "info_return"])
        /\ UNCHANGED <<ghost, remote_labels, remote_protected, used>>

\* return self._information (locked) or return the answer (unlocked): to
\* the caller, or to the child accessor that called.
ThreadInfoReturn ==
    \E t \in Threads :
        /\ threads[t].pc \in {"info_return", "info_returned"}
        /\ LET value == IF threads[t].pc = "info_return"
                        THEN heap[Root].information ELSE threads[t].got
           IN  Step(t, IF threads[t].op = "children"
                       THEN [threads[t] EXCEPT !.pc = "build", !.got = value]
                       ELSE [threads[t] EXCEPT !.pc = "done", !.ret = value])
        /\ UNCHANGED <<heap, ghost, remote_labels, remote_protected, used>>

\* [Study(i, self.client, self.lock) for i in studies_ids], stored in
\* self._child_resources when the resource is locked.
ThreadBuild ==
    \E t \in Threads :
        /\ threads[t].pc = "build"
        /\ LET ids == Get(threads[t].got).Children
               built == Construct(M, ChildClass(heap[Root].cls), ids,
                                  heap[Root].client, heap[Root].lock)
               refs == NewRefs(Len(heap), Len(ids))
           IN  /\ ghost' = built.ghost
               /\ IF heap[Root].lock
                  THEN /\ heap' = [built.heap EXCEPT ![Root].child_resources = Some(refs)]
                       /\ Step(t, [threads[t] EXCEPT !.pc = "children_return"])
                  ELSE /\ heap' = built.heap
                       /\ Step(t, [threads[t] EXCEPT !.pc = "done", !.ret = Some(refs)])
        /\ UNCHANGED <<remote_labels, remote_protected, used>>

\* return self._child_resources
ThreadChildrenReturn ==
    \E t \in Threads :
        /\ threads[t].pc = "children_return"
        /\ Step(t, [threads[t] EXCEPT !.pc = "done",
                                      !.ret = heap[Root].child_resources])
        /\ UNCHANGED <<heap, ghost, remote_labels, remote_protected, used>>

\* The caller constructs a locked root proxy.
InitLocked ==
    /\ \E root \in Roots :
          /\ heap = <<Resource(root[1], root[2], root[3], TRUE)>>
          /\ ghost = <<NewGhost>>
    /\ remote_labels = [id \in EntityIds |-> {}]
    /\ used = 0
    /\ remote_protected = [id \in AllPatientIds |-> FALSE]
    /\ threads = [t \in Threads |-> Idle]

NextThreads ==
    \/ ThreadCall
    \/ ThreadChildrenCheck
    \/ ThreadInfoCheck
    \/ ThreadFetch
    \/ ThreadStore
    \/ ThreadInfoReturn
    \/ ThreadBuild
    \/ ThreadChildrenReturn
    \/ CallPatientAddLabel
    \/ CallSeriesAddLabel

\* Two threads calling get_main_information and the child accessor of one
\* locked resource, while labels are added on the server.
SpecThreads == InitLocked /\ [][NextThreads]_vars

----------------------------------------------------------------------------
(* Properties of the interleaved calls *)

\* C17: with two threads interleaving on the same locked resource, at most
\* one fetch is answered for that resource, and two calls of the same
\* accessor that have returned have returned the same value.
C17_SingleCriticalSection ==
    heap[Root].lock =>
        /\ ghost[Root].fetches <= 1
        /\ \A t, u \in Threads :
               (/\ threads[t].pc = "done" /\ threads[u].pc = "done"
                /\ threads[t].op = threads[u].op)
                   => threads[t].ret = threads[u].ret

----------------------------------------------------------------------------
(* Pruning a locked tree *)

\* The caller puts a null entry in the cached instance list of a Series:
\* series._child_resources[i] = None.
SetChildEntryNone ==
    \E o \in Proxies("Series") :
        /\ Cached(heap, o)
        /\ \E i \in 1..Len(Kids(heap, o)) :
              /\ Kids(heap, o)[i] # NoneRef
              /\ heap' = [heap EXCEPT ![o].child_resources =
                                          Some([Get(@) EXCEPT ![i] = NoneRef])]
        /\ UNCHANGED <<ghost, remote_labels, used>>
        /\ UNCHANGED others

NextPrune ==
    \/ CallPatientStudies
    \/ CallStudySeries
    \/ CallSeriesInstances
    \/ CallPatientRemoveEmptyStudies
    \/ CallStudyRemoveEmptySeries
    \/ CallSeriesRemoveEmptyInstances
    \/ SetChildResourcesEmpty
    \/ SetChildEntryNone

\* The child accessors and the pruning methods of a locked tree whose cached
\* lists the caller empties or fills with null entries.
SpecPrune == InitLocked /\ [][NextPrune]_vars

----------------------------------------------------------------------------
(* Properties of pruning *)

\* C18: Patient.remove_empty_studies on a Patient whose study list is cached
\* leaves every cached Study as Study.remove_empty_series leaves it, and
\* keeps, in order, exactly the studies whose series list is not the empty
\* sequence after that; a Study whose series list is unset is kept and left
\* as it was, whatever series the server lists for it.
C18_StudyPruneRunsBeforeFilter ==
    \A p \in Proxies("Patient") :
        Cached(heap, p) =>
            LET studies == Kids(heap, p)
                h == Patient_remove_empty_studies(heap, p)
            IN  /\ \A i \in 1..Len(studies) :
                       h[studies[i]] =
                           Study_remove_empty_series(heap, studies[i])[studies[i]]
                /\ Kids(h, p) =
                       SelectSeq(studies,
                                 LAMBDA s : h[s].child_resources # Some(<<>>))
                /\ \A i \in 1..Len(studies) :
                       ~Cached(heap, studies[i]) =>
                           /\ studies[i] \in KidSet(h, p)
                           /\ h[studies[i]] = heap[studies[i]]

\* C18 witness: remove_empty_studies has run on a Patient: its cached list
\* has lost the Study whose series were all emptied and still holds the
\* Study whose series list was never read, for which the server lists no
\* series.
C18_Witness ==
    \E p \in Proxies("Patient") :
        /\ Cached(heap, p)
        /\ Len(Kids(heap, p)) = 1
        /\ \A s \in KidSet(heap, p) :
               /\ ~Cached(heap, s)
               /\ RemoteChildren(heap[s].id_) = <<>>
        /\ \E s \in Proxies("Study") :
               /\ s \notin KidSet(heap, p)
               /\ heap[s].child_resources = Some(<<>>)

\* The sequence short is what is left of the sequence long once some of
\* its entries are taken out: the same entries in the same order.
IsSubSeq(short, long) ==
    \E keep \in SUBSET (1..Len(long)) :
        short = SelectSeq(long, LAMBDA r : \E i \in keep : long[i] = r)

\* Running the prune of o's class on o in heap h.
Prune(h, o) ==
    CASE h[o].cls = "Patient" -> Patient_remove_empty_studies(h, o)
      [] h[o].cls = "Study" -> Study_remove_empty_series(h, o)
      [] h[o].cls = "Series" -> Series_remove_empty_instances(h, o)
      [] OTHER -> h

\* C19: Series.remove_empty_instances leaves in the cached instance list
\* exactly the entries that are not null, in their order;
\* Patient.remove_empty_studies leaves in the cached study list exactly the
\* studies whose cached series list is not empty, in their order; every
\* prune keeps the proxies it retains as they were referenced (same
\* references, same relative order), and running the same prune again
\* changes nothing.
C19_PruneIsIdempotentAndOrdered ==
    \A o \in 1..Len(heap) :
        Cached(heap, o) =>
            LET h == Prune(heap, o)
            IN  /\ Prune(h, o) = h
                /\ IsSubSeq(Kids(h, o), Kids(heap, o))
                /\ heap[o].cls = "Series" =>
                       h = [heap EXCEPT ![o].child_resources =
                               Some(SelectSeq(Kids(heap, o),
                                              LAMBDA r : r # NoneRef))]
                /\ heap[o].cls = "Patient" =>
                       Kids(h, o) =
                           SelectSeq(Kids(heap, o),
                                     LAMBDA s : h[s].child_resources # Some(<<>>))

\* C19 witness: remove_empty_instances has run on a Series whose cached list
\* of two instances had a null first entry: the second instance is what the
\* list now holds.
C19_Witness ==
    \E o \in Proxies("Series") :
        /\ Cached(heap, o)
        /\ Len(RemoteChildren(heap[o].id_)) = 2
        /\ Len(Kids(heap, o)) = 1
        /\ Kids(heap, o)[1] # NoneRef
        /\ heap[Kids(heap, o)[1]].id_ = RemoteChildren(heap[o].id_)[2]

----------------------------------------------------------------------------
(* Properties of a fetch that raises *)

\* A read of locked resource o whose caches are unset raises when its fetch
\* raises, writes nothing, and the same read made next sends a fetch again
\* and returns what the server answers.
FailedReadLeavesUnset(o) ==
    LET info == GetMainInformation(M, o, FALSE)
        infoAgain == GetMainInformation(info.m, o, TRUE)
        kids == ChildAccessor(M, o, FALSE)
        kidsAgain == ChildAccessor(kids.m, o, TRUE)
    IN  /\ info.ret = None /\ info.nfetch = 1 /\ info.m = M
        /\ infoAgain.nfetch = 1
        /\ infoAgain.ret = Some(RemoteDocument(remote_labels, heap[o].id_))
        /\ kids.ret = None /\ kids.nfetch = 1 /\ kids.m = M
        /\ kidsAgain.nfetch = 1
        /\ kidsAgain.ret # None
        /\ kidsAgain.m.heap[o].information =
               Some(RemoteDocument(remote_labels, heap[o].id_))

\* The step in which the fetch of thread t raises.
FetchRaises(t) == threads[t].pc = "fetch" /\ threads'[t].pc = "raised"

\* C20: on a locked resource whose cached information and cached children
\* are unset, get_main_information and the child accessor raise when the
\* fetch raises, leave both caches unset, and the next such read sends a new
\* fetch and returns the server's answer; the step of a thread in which its
\* fetch raises changes no proxy, and a thread that raised holds the error
\* and no value.
C20_FailedFetchLeavesCacheUnset ==
    /\ [](\A o \in Resources :
              (/\ heap[o].lock
               /\ heap[o].information = None
               /\ heap[o].child_resources = None) => FailedReadLeavesUnset(o))
    /\ [](\A t \in Threads :
              threads[t].pc = "raised" =>
                  threads[t].error = RemoteError /\ threads[t].ret = None)
    /\ [][\A t \in Threads : FetchRaises(t) => heap' = heap /\ ghost' = ghost]_vars

\* C20 witness: the child accessor called by a thread has raised on its
\* fetch, the other thread has called nothing, and both caches of the
\* locked resource are still unset.
C20_Witness ==
    \E t, u \in Threads :
        /\ threads[t].pc = "raised" /\ threads[t].op = "children"
        /\ threads[t].error = RemoteError /\ threads[t].sent = 1
        /\ threads[u] = Idle
        /\ heap[Root].lock
        /\ heap[Root].information = None
        /\ heap[Root].child_resources = None

----------------------------------------------------------------------------
(* Reads around lock assignments *)

\* Another client of the server adds a label to the entity of the root
\* proxy: what the server holds moves on without a call of this caller.
RemoteLabelChanges ==
    \E label \in LabelSet :
        /\ label \notin remote_labels[heap[Root].id_]
        /\ remote_labels' = put_label(remote_labels, heap[Root].id_, label)
        /\ UNCHANGED <<heap, ghost, used>>
        /\ UNCHANGED others

NextToggle ==
    \/ CallPatientGetMainInformation
    \/ CallStudyGetMainInformation
    \/ CallSeriesGetMainInformation
    \/ CallPatientStudies
    \/ CallStudySeries
    \/ CallSeriesInstances
    \/ SetLock
    \/ RemoteLabelChanges

\* The reads of a root proxy built locked, whose lock attribute the caller
\* assigns while the server's labels change.
SpecToggle == InitLocked /\ [][NextToggle]_vars

\* The machine in which the server holds the labels ls for o's entity.
WithRemoteLabels(o, ls) == [M EXCEPT !.labels[heap[o].id_] = ls]

\* Both caches of every proxy are in the next state what they are now.
CachesKept(o) ==
    /\ heap'[o].information = heap[o].information
    /\ heap'[o].child_resources = heap[o].child_resources

\* C21: a step that changes the lock flag of a proxy leaves its cached
\* information and cached children as they were, and so does every step
\* taken while its lock flag is false; and a Patient or Series whose lock flag
\* was assigned and is true answers get_main_information with the cached
\* document when it is set, and its child accessor with the cached list when
\* it is set, sending no fetch and writing nothing, whatever labels the
\* server holds for it by then.
C21_CacheOutlivesLockToggling ==
    /\ [][\A o \in 1..Len(heap) :
              (heap'[o].lock # heap[o].lock \/ ~heap[o].lock) => CachesKept(o)]_vars
    /\ [](\A o \in Resources :
              (heap[o].lock /\ ghost[o].assigned) =>
                  \A ls \in SUBSET LabelSet, ok \in BOOLEAN :
                      LET m == WithRemoteLabels(o, ls)
                          g == GetMainInformation(m, o, ok)
                          c == ChildAccessor(m, o, ok)
                      IN  /\ heap[o].information # None =>
                                 g = Outcome(m, heap[o].information, 0, 1, 0)
                          /\ Cached(heap, o) =>
                                 c = Outcome(m, heap[o].child_resources, 0, 0, 0))

\* C21 witness: a root built locked has had its lock flag assigned twice
\* (to false and back to true); one fetch was answered through it, both its
\* caches are set, and the server's document is no longer the cached one.
C21_Witness ==
    /\ heap[Root].lock /\ ghost[Root].assigned
    /\ used = 2
    /\ ghost[Root].fetches = 1
    /\ heap[Root].information # None
    /\ heap[Root].information # Fresh(Root)
    /\ Cached(heap, Root)

====
